---- MODULE Spec2Model ----
(***************************************************************************)
(* The training orchestration of the food recognition pipeline:            *)
(* utils/training_utils.py (Trainer), the resume path of training/train.py *)
(* and the model loading of scripts/inference.py.                          *)
(*                                                                         *)
(* Tensors are abstracted to what the trainer's decisions can observe: a   *)
(* parameter vector is identified by the number of validation samples it   *)
(* classifies correctly, the optimizer state by its step count, the        *)
(* scheduler state by its last_epoch counter.  A state dict carries the    *)
(* architecture it was produced by, since load_state_dict is strict.       *)
(***************************************************************************)
EXTENDS Integers, Sequences, FiniteSets, TLC

\* ------------------------------------------------------------------ bounds

\* Work done in the save directory over all calls of train, a call of n
\* epochs counting n + 1: enough for a call of ten epochs and a call of one.
MaxWork == 13

\* The same for the short runs: enough for a call of two epochs and a call
\* of one.
MaxWorkShort == 5

\* Samples of the validation loader (total in validate_epoch) in the runs
\* long enough for a periodic checkpoint: accuracies 0 and 100.
ValSamples == 1

\* Samples of the validation loader in the short runs: accuracies 0, 50, 100.
ValSamplesShort == 2

\* Batches of the training loader (len(self.train_loader)).
TrainBatches == 2

\* Samples of the test loader.
TestSamples == 1

\* Calls of train_epoch followed batch by batch.
MaxPasses == 2

\* Samples of the loader handed to evaluate when its predictions are
\* followed one by one.
EvalSamples == 2

\* Images of a class in the Food-101 archive.
MaxImages == 2

\* Runs of setup_food101_dataset on one data directory.
MaxSetupRuns == 2

\* ------------------------------------------------------- program constants

\* (epoch + 1) % 10 == 0
CheckpointEvery == 10

\* self.best_val_accuracy = 0.0
InitialBestValAccuracy == 0

\* nn.Linear(hidden_dim // 2, 5): calories, protein, carbs, fat, fiber
MacroOutputs == 5

\* ------------------------------------------------------------------- inputs

\* Architectures the training command can be given: --model_name and the
\* --macro_estimation toggle (store_true, so off unless given).
ModelNames == {"resnet18", "resnet50"}

Archs == [model_name : ModelNames, macro_estimation : BOOLEAN]

\* config.py: model_name = "resnet50", macro_estimation_enabled = True.  The
\* inference process never changes them.
DefaultConfig == [model_name |-> "resnet50", macro_estimation |-> TRUE]

\* train.py without --model_name and without --macro_estimation
TrainDefaults == [model_name |-> "resnet50", macro_estimation |-> FALSE]

\* Values of --num_epochs: none, few, and enough for a periodic checkpoint.
EpochCounts == {0, 1, 2, CheckpointEvery, CheckpointEvery + 1}

ShortEpochCounts == {0, 1, 2}

\* A parameter vector, identified by the number of validation samples the
\* model classifies correctly with it, out of total.
ParamSpace(total) == 0 .. total

\* Losses are opaque to every decision of the trainer.
TrainLosses == {3}

ValLosses == {2}

\* Running training accuracy of an epoch, in percent.
TrainAccuracies == {75}

\* ------------------------------------------------------------------- paths

\* Variant: one best-model file, not numbered by epoch.
best_model_path_unnumbered(n) == <<"best_model_epoch", 0>>

best_model_path_of(n) == <<"best_model_epoch", n>>

checkpoint_path_of(n) == <<"checkpoint_epoch", n>>

final_model_path == <<"final_model", 0>>

NoPath == <<"None", 0>>

NoEpoch == -1

NoMetrics == [loss |-> -1, accuracy |-> -1]

EmptyHistory == [loss |-> <<>>, accuracy |-> <<>>, val_loss |-> <<>>, val_accuracy |-> <<>>]

\* main before trainer.evaluate has returned
NoEvaluation == [loader |-> "None"]

\* ------------------------------------------------------- dataset inputs

\* Largest index a class mapping that is passed in or read from
\* class_mapping.json can hold.
MaxIndex == 1

\* Class directory names, and their positions in sorted order.
ClassNames == {"apple_pie", "pizza"}

SortedPosition == [apple_pie |-> 1, pizza |-> 2]

\* File names matched by glob("*.jpg") in a class directory.
ImageNames == {"1.jpg"}

SplitNames == {"train", "val", "test"}

\* A class mapping: class name -> index, as a dict that came from anywhere.
Mappings == UNION {[S -> 0 .. MaxIndex] : S \in SUBSET ClassNames}

EmptyMapping == [name \in {} |-> 0]

\* A split directory: absent, or its class directories with their images.
NoSplitDir == [exists |-> FALSE, classes |-> EmptyMapping]

SplitDirs == {NoSplitDir} \cup
             {[exists |-> TRUE, classes |-> c] :
                 c \in UNION {[S -> SUBSET ImageNames] : S \in SUBSET ClassNames}}

\* data_dir.parent / "class_mapping.json": absent, or the dict it holds.
NoMappingFile == [exists |-> FALSE, mapping |-> EmptyMapping]

MappingFiles == {NoMappingFile} \cup {[exists |-> TRUE, mapping |-> m] : m \in Mappings}

DataDirs == [splits : [SplitNames -> SplitDirs], mapping_file : MappingFiles]

\* The class_mapping argument of a dataset constructor: None, or a dict.
NoMappingArg == [given |-> FALSE, mapping |-> EmptyMapping]

MappingArgs == {NoMappingArg} \cup {[given |-> TRUE, mapping |-> m] : m \in Mappings}

NoDatasets == <<>>

NoError == "None"

EmptyDataDir == [splits |-> [split \in SplitNames |-> NoSplitDir], mapping_file |-> NoMappingFile]

\* --------------------------------------------------------- model inputs

\* Architecture names, written as the prefix that startswith tests and the
\* rest of the name.
ArchitectureNames ==
    {<<"resnet", "18">>, <<"resnet", "34">>, <<"resnet", "50">>, <<"resnet", "101">>,
     <<"resnet", "152">>, <<"resnet", "99">>, <<"efficientnet", "_b0">>,
     <<"efficientnet", "_b3">>, <<"vit", "_base_patch16_224">>,
     <<"vit", "_small_patch16_224">>, <<"mobilenet", "_v2">>, <<"densenet", "121">>}

\* num_classes given to the model.
ClassCounts == {2, 101}

\* Images in a batch handed to forward.
BatchSizes == {1, 2}

NoModel == [stage |-> "none"]

NoOutputs == [error |-> "no call"]

\* An absent macro estimator (None).
NoEstimator == [present |-> FALSE, feature_dim |-> 0]

\* Split ratios in tenths; the class body gives 0.8, 0.1, 0.1.
Tenths == {1, 2, 8}

SplitRatios == [train_split : Tenths, val_split : Tenths, test_split : Tenths]

DefaultSplitRatios == [train_split |-> 8, val_split |-> 1, test_split |-> 1]

\* No ModelConfig(...) call has been made.
NoConfigCall == [error |-> "no call"]

\* ------------------------------------------------- inputs of the passes

\* Values of a group of parameter tensors, told apart only by identity.
Weights == {0, 1}

\* len(class_mapping) of the model under the pass
PassClassCounts == {2, 3}

\* The model and configuration a trainer is built with: the configuration's
\* macro_estimation_enabled, whether the model has a macro estimator (so
\* that forward returns macros), and the number of classes.
Nets == [macro_estimation_enabled : BOOLEAN, has_macro_estimator : BOOLEAN,
         num_classes : PassClassCounts]

\* p.grad is None for every parameter p of the group.
NoGrad == [classifier |-> FALSE, macro |-> FALSE]

\* evaluate has not been called.
NoEvalResult == [called |-> FALSE]

IdleNet == [macro_estimation_enabled |-> FALSE, has_macro_estimator |-> FALSE,
            num_classes |-> 2]

\* ------------------------------------------ inputs of the dataset setup

\* food-101/images: class_name/image_id
Food101Images == ClassNames \X (1 .. MaxImages)

\* meta/train.txt and meta/test.txt list disjoint sets of images; an image
\* may be in neither.
MetaLists == [Food101Images -> {"train", "test", "unlisted"}]

NoMeta == [image \in Food101Images |-> "unlisted"]

\* organized/<split>/<class_name>/<image_id>.jpg; the split directories are
\* created empty.
EmptyOrganized == [split \in SplitNames |-> {}]

VARIABLES
    arch,               \* architecture of self.model
    params,             \* self.model.state_dict() values
    optimizer,          \* self.optimizer state (step count)
    scheduler,          \* self.scheduler state (last_epoch)
    train_history,      \* self.train_history
    best_val_accuracy,  \* self.best_val_accuracy
    best_model_path,    \* self.best_model_path
    pc,                 \* position inside Trainer.train, "idle" outside it
    epoch,              \* loop variable of Trainer.train
    num_epochs,         \* argument of Trainer.train
    train_metrics,      \* local of Trainer.train
    val_metrics,        \* local of Trainer.train
    resumed_epoch,      \* main: epoch = trainer.load_checkpoint(args.resume)
    files,              \* the save directory: path -> contents
    saved,              \* torch.save calls per path in the current call of train
    val_total,          \* samples of self.val_loader
    budget,             \* work still allowed in the save directory
    test_metrics,       \* main: the metrics trainer.evaluate returned
    data_dir,           \* the organized dataset directory and class_mapping.json
    datasets,           \* the dataset objects the last call constructed
    data_error,         \* the exception the last dataset call raised
    returned_mapping,   \* the class mapping create_data_loaders returned
    model,              \* the model object under construction or constructed
    outputs,            \* what the model's forward returned
    config_module,      \* outcome of executing config.py
    inference_module,   \* outcome of importing scripts/inference.py
    config_call,        \* outcome of a call ModelConfig(...)
    net,                \* the model and configuration of the trainer under a pass
    classifier_weights, \* parameters of model.classifier (backbone and head)
    macro_weights,      \* parameters of model.macro_estimator
    grad,               \* which parameter groups have a .grad tensor
    batch_idx,          \* batches of the current train_epoch done
    passes,             \* calls of train_epoch completed
    eval_result,        \* what evaluate returned
    meta,               \* food-101/meta: the list each image is in
    organized,          \* data/organized: split -> images
    setup_runs          \* runs of setup_food101_dataset so far

trainer_vars == <<arch, params, optimizer, scheduler, train_history, best_val_accuracy,
                  best_model_path, pc, epoch, num_epochs, train_metrics, val_metrics,
                  resumed_epoch, files, saved, budget, val_total, test_metrics>>

data_vars == <<data_dir, datasets, data_error, returned_mapping>>

model_vars == <<model, outputs, config_module, inference_module, config_call>>

pass_vars == <<net, classifier_weights, macro_weights, grad, batch_idx, passes, eval_result>>

setup_vars == <<meta, organized, setup_runs>>

vars == <<trainer_vars, data_vars, model_vars, pass_vars, setup_vars>>

trainer == <<arch, params, optimizer, scheduler, train_history, best_val_accuracy,
             best_model_path>>

locals == <<pc, epoch, num_epochs, train_metrics, val_metrics>>

\* ---------------------------------------------------------------- helpers

\* self.model.state_dict(): the values together with the key set and shapes,
\* which the architecture determines.
state_dict == [arch |-> arch, values |-> params]

\* 100. * correct / total
Accuracy(correct, total) == (100 * correct) \div total

\* torch.save(obj, path)
torch_save(obj, path) == [p \in DOMAIN files \cup {path} |-> IF p = path THEN obj ELSE files[p]]

CountSave(path) == [p \in DOMAIN saved \cup {path} |->
                      IF p = path
                      THEN (IF p \in DOMAIN saved THEN saved[p] ELSE 0) + 1
                      ELSE saved[p]]

\* Variant: the optimizer and scheduler states are stored with the model.
save_model_contents_with_optimizer ==
    [model_state_dict |-> state_dict,
     optimizer_state_dict |-> optimizer,
     scheduler_state_dict |-> scheduler,
     config |-> arch,
     train_history |-> train_history]

\* Trainer.save_model
save_model_contents ==
    [model_state_dict |-> state_dict,
     config |-> arch,
     train_history |-> train_history]

\* Variant: the 1-based epoch number is recorded.
save_checkpoint_contents_one_based(e) ==
    [epoch |-> e + 1,
     model_state_dict |-> state_dict,
     optimizer_state_dict |-> optimizer,
     scheduler_state_dict |-> scheduler,
     train_history |-> train_history,
     best_val_accuracy |-> best_val_accuracy,
     config |-> arch]

\* Trainer.save_checkpoint
save_checkpoint_contents(e) ==
    [epoch |-> e,
     model_state_dict |-> state_dict,
     optimizer_state_dict |-> optimizer,
     scheduler_state_dict |-> scheduler,
     train_history |-> train_history,
     best_val_accuracy |-> best_val_accuracy,
     config |-> arch]

\* ------------------------------------------------------------------- Init

\* Trainer.__init__ on a freshly created model
FreshTrainer(a, p) ==
    /\ arch = a
    /\ params = p
    /\ optimizer = 0
    /\ scheduler = 0
    /\ train_history = EmptyHistory
    /\ best_val_accuracy = InitialBestValAccuracy
    /\ best_model_path = NoPath

\* No dataset call has been made (the trainer is handed its loaders).
DataIdle ==
    /\ data_dir = EmptyDataDir
    /\ datasets = NoDatasets
    /\ data_error = NoError
    /\ returned_mapping = NoMappingArg

\* No model is being constructed and no module has been imported.
ModelIdle ==
    /\ model = NoModel
    /\ outputs = NoOutputs
    /\ config_module = "unloaded"
    /\ inference_module = "unloaded"
    /\ config_call = NoConfigCall

\* No pass is being followed batch by batch.
PassIdle ==
    /\ net = IdleNet
    /\ classifier_weights = 0
    /\ macro_weights = 0
    /\ grad = NoGrad
    /\ batch_idx = 0
    /\ passes = 0
    /\ eval_result = NoEvalResult

\* The dataset setup script is not run.
SetupIdle ==
    /\ meta = NoMeta
    /\ organized = EmptyOrganized
    /\ setup_runs = 0

InitWith(archs, total, work) ==
    /\ \E a \in archs, p \in ParamSpace(total) : FreshTrainer(a, p)
    /\ pc = "idle"
    /\ epoch = 0
    /\ num_epochs = 0
    /\ train_metrics = NoMetrics
    /\ val_metrics = NoMetrics
    /\ resumed_epoch = NoEpoch
    /\ files = <<>>
    /\ saved = <<>>
    /\ budget = work
    /\ val_total = total
    /\ test_metrics = NoEvaluation
    /\ DataIdle
    /\ ModelIdle
    /\ PassIdle
    /\ SetupIdle

Init == InitWith({TrainDefaults}, ValSamples, MaxWork)

InitShort == InitWith(Archs, ValSamplesShort, MaxWorkShort)

\* ---------------------------------------------------------------- actions

\* main: a new process builds the model and the trainer (create_model,
\* create_trainer); the save directory is kept.
NewTrainer(a, p) ==
    /\ pc = "idle"
    /\ arch' = a
    /\ params' = p
    /\ optimizer' = 0
    /\ scheduler' = 0
    /\ train_history' = EmptyHistory
    /\ best_val_accuracy' = InitialBestValAccuracy
    /\ best_model_path' = NoPath
    /\ resumed_epoch' = NoEpoch
    /\ test_metrics' = NoEvaluation
    /\ UNCHANGED <<locals, files, saved, budget, val_total>>

\* Variant: a call with no epochs returns without the final save.
TrainStartSkipEmpty(n) ==
    /\ pc = "idle"
    /\ n + 1 <= budget
    /\ budget' = budget - (n + 1)
    /\ num_epochs' = n
    /\ epoch' = 0
    /\ saved' = <<>>
    /\ train_metrics' = NoMetrics
    /\ val_metrics' = NoMetrics
    /\ pc' = IF 0 < n THEN "train_epoch" ELSE "returned"
    /\ UNCHANGED <<trainer, resumed_epoch, files, val_total, test_metrics>>

\* Trainer.train(num_epochs): entry, up to the head of the loop
TrainStart(n) ==
    /\ pc = "idle"
    /\ n + 1 <= budget
    /\ budget' = budget - (n + 1)
    /\ num_epochs' = n
    /\ epoch' = 0
    /\ saved' = <<>>
    /\ train_metrics' = NoMetrics
    /\ val_metrics' = NoMetrics
    /\ pc' = IF 0 < n THEN "train_epoch" ELSE "save_final"
    /\ UNCHANGED <<trainer, resumed_epoch, files, val_total, test_metrics>>

\* train_metrics = self.train_epoch(): one optimizer step per batch
TrainEpoch(p, l, a) ==
    /\ pc = "train_epoch"
    /\ params' = p
    /\ optimizer' = optimizer + TrainBatches
    /\ train_metrics' = [loss |-> l, accuracy |-> a]
    /\ pc' = "validate_epoch"
    /\ UNCHANGED <<arch, scheduler, train_history, best_val_accuracy, best_model_path,
                   epoch, num_epochs, val_metrics, resumed_epoch, files, saved, budget, val_total, test_metrics>>

\* Variant: the validation pass takes an optimizer step.
ValidateEpochWithStep(l) ==
    /\ pc = "validate_epoch"
    /\ val_metrics' = [loss |-> l, accuracy |-> Accuracy(params, val_total)]
    /\ optimizer' = optimizer + 1
    /\ pc' = "scheduler_step"
    /\ UNCHANGED <<arch, params, scheduler, train_history, best_val_accuracy,
                   best_model_path, epoch, num_epochs, train_metrics, resumed_epoch,
                   files, saved, budget, val_total, test_metrics>>

\* val_metrics = self.validate_epoch()
ValidateEpoch(l) ==
    /\ pc = "validate_epoch"
    /\ val_metrics' = [loss |-> l, accuracy |-> Accuracy(params, val_total)]
    /\ pc' = "scheduler_step"
    /\ UNCHANGED <<trainer, epoch, num_epochs, train_metrics, resumed_epoch, files,
                   saved, budget, val_total, test_metrics>>

\* Variant: the scheduler is not advanced.
SchedulerStepSkipped ==
    /\ pc = "scheduler_step"
    /\ pc' = "save_history"
    /\ UNCHANGED <<trainer, epoch, num_epochs, train_metrics, val_metrics,
                   resumed_epoch, files, saved, budget, val_total, test_metrics>>

\* self.scheduler.step()
SchedulerStep ==
    /\ pc = "scheduler_step"
    /\ scheduler' = scheduler + 1
    /\ pc' = "save_history"
    /\ UNCHANGED <<arch, params, optimizer, train_history, best_val_accuracy,
                   best_model_path, epoch, num_epochs, train_metrics, val_metrics,
                   resumed_epoch, files, saved, budget, val_total, test_metrics>>

\* Variant: only the latest epoch's metrics are kept.
SaveHistoryKeepLatest ==
    /\ pc = "save_history"
    /\ train_history' =
         [loss |-> <<train_metrics.loss>>,
          accuracy |-> <<train_metrics.accuracy>>,
          val_loss |-> <<val_metrics.loss>>,
          val_accuracy |-> <<val_metrics.accuracy>>]
    /\ pc' = "save_best"
    /\ UNCHANGED <<arch, params, optimizer, scheduler, best_val_accuracy,
                   best_model_path, epoch, num_epochs, train_metrics, val_metrics,
                   resumed_epoch, files, saved, budget, val_total, test_metrics>>

\* the four appends to self.train_history
SaveHistory ==
    /\ pc = "save_history"
    /\ train_history' =
         [loss |-> Append(train_history.loss, train_metrics.loss),
          accuracy |-> Append(train_history.accuracy, train_metrics.accuracy),
          val_loss |-> Append(train_history.val_loss, val_metrics.loss),
          val_accuracy |-> Append(train_history.val_accuracy, val_metrics.accuracy)]
    /\ pc' = "save_best"
    /\ UNCHANGED <<arch, params, optimizer, scheduler, best_val_accuracy,
                   best_model_path, epoch, num_epochs, train_metrics, val_metrics,
                   resumed_epoch, files, saved, budget, val_total, test_metrics>>

\* Variants of the comparison: a tie counts as a new best; any change counts.
IsNewBestOrEqual(accuracy, best) == accuracy >= best

IsNewBestOrDifferent(accuracy, best) == accuracy # best

\* if val_metrics['accuracy'] > self.best_val_accuracy: ...
IsNewBest(accuracy, best) == accuracy > best

SaveBest ==
    /\ pc = "save_best"
    /\ IF IsNewBest(val_metrics.accuracy, best_val_accuracy)
       THEN /\ best_val_accuracy' = val_metrics.accuracy
            /\ files' = torch_save(save_model_contents, best_model_path_of(epoch + 1))
            /\ saved' = CountSave(best_model_path_of(epoch + 1))
            /\ best_model_path' = best_model_path_of(epoch + 1)
       ELSE UNCHANGED <<best_val_accuracy, files, saved, best_model_path>>
    /\ pc' = "save_checkpoint"
    /\ UNCHANGED <<arch, params, optimizer, scheduler, train_history, epoch, num_epochs,
                   train_metrics, val_metrics, resumed_epoch, budget, val_total, test_metrics>>

\* Variant: the 0-based index is tested.
IsCheckpointEpochZeroBased(e) == e % CheckpointEvery = 0

\* if (epoch + 1) % 10 == 0: ...
IsCheckpointEpoch(e) == (e + 1) % CheckpointEvery = 0

\* the periodic checkpoint and the step of the for loop
SaveCheckpoint ==
    /\ pc = "save_checkpoint"
    /\ IF IsCheckpointEpoch(epoch)
       THEN /\ files' = torch_save(save_checkpoint_contents(epoch),
                                   checkpoint_path_of(epoch + 1))
            /\ saved' = CountSave(checkpoint_path_of(epoch + 1))
       ELSE UNCHANGED <<files, saved>>
    /\ epoch' = epoch + 1
    /\ pc' = IF epoch + 1 < num_epochs THEN "train_epoch" ELSE "save_final"
    /\ UNCHANGED <<trainer, num_epochs, train_metrics, val_metrics, resumed_epoch, budget, val_total, test_metrics>>

\* self.save_model(final_model_path), and train returns
SaveFinal ==
    /\ pc = "save_final"
    /\ files' = torch_save(save_model_contents, final_model_path)
    /\ saved' = CountSave(final_model_path)
    /\ pc' = "returned"
    /\ UNCHANGED <<trainer, epoch, num_epochs, train_metrics, val_metrics,
                   resumed_epoch, budget, val_total, test_metrics>>

\* The loaders main can hand to trainer.evaluate.
Loaders == {"val_loader", "test_loader"}

\* Samples of a loader.
LoaderSamples(loader) == IF loader = "val_loader" THEN val_total ELSE TestSamples

\* sklearn's accuracy_score(all_targets, all_predictions): the fraction of
\* predictions equal to their target, a number between 0 and 1, kept as
\* numerator and denominator.
accuracy_score(correct, total) == [num |-> correct, den |-> total]

\* trainer.evaluate(loader) after train has returned.  On the validation
\* loader the predictions are those validate_epoch sees with the same
\* parameters; on the test loader any number of them is correct.  Of the
\* returned metrics the loss and the accuracy are kept.
Evaluate(loader, correct, l) ==
    /\ pc = "returned"
    /\ test_metrics = NoEvaluation
    /\ correct \in 0 .. LoaderSamples(loader)
    /\ loader = "val_loader" => correct = params
    /\ test_metrics' = [loader |-> loader,
                        loss |-> l,
                        accuracy |-> accuracy_score(correct, LoaderSamples(loader))]
    /\ UNCHANGED <<trainer, locals, resumed_epoch, files, saved, budget, val_total>>

\* main after trainer.train: the process ends
Exit ==
    /\ pc = "returned"
    /\ pc' = "idle"
    /\ train_metrics' = NoMetrics
    /\ val_metrics' = NoMetrics
    /\ resumed_epoch' = NoEpoch
    /\ test_metrics' = NoEvaluation
    /\ UNCHANGED <<trainer, epoch, num_epochs, files, saved, budget, val_total>>

\* strict load_state_dict of sd into the model: the tensors whose key and
\* shape match are copied before the mismatch is raised.  With the same
\* backbone the whole classifier is copied (it decides the predictions);
\* between different backbones only some layers are, and the result val is
\* not determined by either side.
load_state_dict(sd, val) ==
    IF sd.arch.model_name = arch.model_name THEN sd.values ELSE val

\* trainer.load_checkpoint(path); val is used only for a partial copy
\* between different backbones.
LoadCheckpoint(path, val) ==
    /\ pc = "idle"
    /\ IF path \notin DOMAIN files
       THEN \* torch.load raises
            UNCHANGED <<trainer, resumed_epoch>>
       ELSE LET checkpoint == files[path] IN
            /\ params' = load_state_dict(checkpoint.model_state_dict, val)
            /\ IF checkpoint.model_state_dict.arch # arch
                  \/ "optimizer_state_dict" \notin DOMAIN checkpoint
               THEN \* load_state_dict raises RuntimeError, or
                    \* checkpoint['optimizer_state_dict'] raises KeyError
                    UNCHANGED <<optimizer, scheduler, train_history, best_val_accuracy,
                                resumed_epoch>>
               ELSE /\ optimizer' = checkpoint.optimizer_state_dict
                    /\ scheduler' = checkpoint.scheduler_state_dict
                    /\ train_history' = checkpoint.train_history
                    /\ best_val_accuracy' = checkpoint.best_val_accuracy
                    /\ resumed_epoch' = checkpoint.epoch
            /\ UNCHANGED <<arch, best_model_path>>
    /\ UNCHANGED <<locals, files, saved, budget, val_total, test_metrics>>

\* FoodRecognitionPredictor._load_model: the architecture is built from the
\* global config of the inference process, and the strict load_state_dict of
\* checkpoint['model_state_dict'] succeeds only for that architecture.
PredictorLoadModel(path) ==
    LET model_arch == DefaultConfig
        checkpoint == files[path]
    IN  checkpoint.model_state_dict.arch = model_arch

\* Paths given to --resume: every file of the save directory, and one that
\* may not exist.
ResumePaths == DOMAIN files \cup {checkpoint_path_of(CheckpointEvery)}

NextWith(archs, counts) ==
    /\ UNCHANGED <<data_vars, model_vars, pass_vars, setup_vars>>
    /\ \/ \E a \in archs, p \in ParamSpace(val_total) : NewTrainer(a, p)
       \/ \E path \in ResumePaths, val \in ParamSpace(val_total) : LoadCheckpoint(path, val)
       \/ \E n \in counts : TrainStart(n)
       \/ \E p \in ParamSpace(val_total), l \in TrainLosses, a \in TrainAccuracies :
             TrainEpoch(p, l, a)
       \/ \E l \in ValLosses : ValidateEpoch(l)
       \/ SchedulerStep
       \/ SaveHistory
       \/ SaveBest
       \/ SaveCheckpoint
       \/ SaveFinal
       \/ \E loader \in Loaders, correct \in 0 .. (val_total + TestSamples), l \in ValLosses :
             Evaluate(loader, correct, l)
       \/ Exit

\* The default training command, runs long enough for a periodic checkpoint.
Next == NextWith({TrainDefaults}, EpochCounts)

Spec == Init /\ [][Next]_vars

\* The training command with every architecture and toggle, short runs and
\* a finer scale of validation accuracies.
NextShort == NextWith(Archs, ShortEpochCounts)

SpecShort == InitShort /\ [][NextShort]_vars

\* ---------------------------------------------------------------- failures

\* train_epoch raises while loading batch k + 1 (Image.open in __getitem__
\* on a file that cannot be read): the k batches before it have been
\* stepped, and the exception leaves train_epoch.
TrainEpochFails(p, k) ==
    /\ pc = "train_epoch"
    /\ params' = IF k = 0 THEN params ELSE p
    /\ optimizer' = optimizer + k
    /\ pc' = "failed"
    /\ UNCHANGED <<arch, scheduler, train_history, best_val_accuracy, best_model_path,
                   epoch, num_epochs, train_metrics, val_metrics, resumed_epoch, files,
                   saved, budget, val_total, test_metrics>>

\* validate_epoch raises while loading a batch.
ValidateEpochFails ==
    /\ pc = "validate_epoch"
    /\ pc' = "failed"
    /\ UNCHANGED <<trainer, epoch, num_epochs, train_metrics, val_metrics,
                   resumed_epoch, files, saved, budget, val_total, test_metrics>>

\* Variant: the failed epoch is run again.
RetryEpoch ==
    /\ pc = "failed"
    /\ pc' = "train_epoch"
    /\ UNCHANGED <<trainer, epoch, num_epochs, train_metrics, val_metrics,
                   resumed_epoch, files, saved, budget, val_total, test_metrics>>

\* Neither train nor main catches: the exception leaves train and main, and
\* the process ends.
Propagate ==
    /\ pc = "failed"
    /\ pc' = "idle"
    /\ train_metrics' = NoMetrics
    /\ val_metrics' = NoMetrics
    /\ resumed_epoch' = NoEpoch
    /\ test_metrics' = NoEvaluation
    /\ UNCHANGED <<trainer, epoch, num_epochs, files, saved, budget, val_total>>

NextFail ==
    \/ NextShort
    \/ /\ UNCHANGED <<data_vars, model_vars, pass_vars, setup_vars>>
       /\ \/ \E p \in ParamSpace(val_total), k \in 0 .. (TrainBatches - 1) :
                TrainEpochFails(p, k)
          \/ ValidateEpochFails
          \/ Propagate

\* The short runs, with passes that can fail.
SpecFail == InitShort /\ [][NextFail]_vars

\* ---------------------------------------------------------------- datasets

\* The trainer is not running while datasets are constructed.
TrainerIdle ==
    /\ FreshTrainer(TrainDefaults, 0)
    /\ pc = "idle"
    /\ epoch = 0
    /\ num_epochs = 0
    /\ train_metrics = NoMetrics
    /\ val_metrics = NoMetrics
    /\ resumed_epoch = NoEpoch
    /\ files = <<>>
    /\ saved = <<>>
    /\ budget = 0
    /\ val_total = ValSamples
    /\ test_metrics = NoEvaluation

\* {class_name: idx for idx, class_name in enumerate(sorted(classes))}
enumerate_sorted(classes) ==
    [name \in classes |->
        Cardinality({other \in classes : SortedPosition[other] < SortedPosition[name]})]

\* split_dir.iterdir() raises FileNotFoundError for an absent directory; it
\* is reached only when no mapping was passed and no mapping file exists.
raises_not_found(split, arg) ==
    /\ ~arg.given
    /\ ~data_dir.mapping_file.exists
    /\ ~data_dir.splits[split].exists

\* "Load class mapping": the argument, else the file, else the directories.
load_class_mapping(split, arg) ==
    IF arg.given THEN arg.mapping
    ELSE IF data_dir.mapping_file.exists THEN data_dir.mapping_file.mapping
    ELSE enumerate_sorted(DOMAIN data_dir.splits[split].classes)

\* {idx: class_name for class_name, idx in class_mapping.items()}: where two
\* names share an index the one later in the dict's order stays, and the
\* order is the caller's or the file's.
Inversions(mapping) ==
    LET indices == {mapping[name] : name \in DOMAIN mapping}
    IN  {inv \in [indices -> DOMAIN mapping] : \A idx \in indices : mapping[inv[idx]] = idx}

\* "Load image paths and labels": an absent split or class directory adds
\* nothing.
load_samples(split, mapping) ==
    LET split_dir == data_dir.splits[split]
        found == {pair \in ClassNames \X ImageNames :
                     /\ pair[1] \in DOMAIN mapping
                     /\ split_dir.exists
                     /\ pair[1] \in DOMAIN split_dir.classes
                     /\ pair[2] \in split_dir.classes[pair[1]]}
    IN  {[class |-> pair[1], image |-> pair[2], label |-> mapping[pair[1]]] : pair \in found}

\* The object a dataset constructor leaves when it does not raise.
dataset_object(kind, split, arg, inv) ==
    [kind |-> kind,
     split |-> split,
     class_mapping |-> load_class_mapping(split, arg),
     idx_to_class |-> inv,
     samples |-> load_samples(split, load_class_mapping(split, arg))]

\* A process makes one dataset call on the directory it finds.
NoCallYet == datasets = NoDatasets /\ data_error = NoError

\* FoodDataset.__init__ and AlbumentationsDataset.__init__
DatasetInit(kind, split, arg) ==
    /\ NoCallYet
    /\ IF raises_not_found(split, arg)
       THEN /\ datasets' = NoDatasets
            /\ data_error' = "FileNotFoundError"
       ELSE /\ \E inv \in Inversions(load_class_mapping(split, arg)) :
                  datasets' = [d \in {"dataset"} |-> dataset_object(kind, split, arg, inv)]
            /\ data_error' = NoError
    /\ returned_mapping' = NoMappingArg
    /\ UNCHANGED <<data_dir, trainer_vars, model_vars, pass_vars, setup_vars>>

FoodDatasetInit(split, arg) == DatasetInit("FoodDataset", split, arg)

AlbumentationsDatasetInit(split, arg) == DatasetInit("AlbumentationsDataset", split, arg)

\* create_data_loaders: the three datasets, each constructed without a
\* class mapping, and the class mapping of the train dataset returned.
CreateDataLoaders(use_albumentations) ==
    LET kind == IF use_albumentations THEN "AlbumentationsDataset" ELSE "FoodDataset" IN
    /\ NoCallYet
    /\ IF \E split \in SplitNames : raises_not_found(split, NoMappingArg)
       THEN /\ datasets' = NoDatasets
            /\ data_error' = "FileNotFoundError"
            /\ returned_mapping' = NoMappingArg
       ELSE /\ \E invs \in [SplitNames -> UNION {Inversions(load_class_mapping(split, NoMappingArg)) :
                                                     split \in SplitNames}] :
                  /\ \A split \in SplitNames :
                         invs[split] \in Inversions(load_class_mapping(split, NoMappingArg))
                  /\ datasets' = [split \in SplitNames |->
                                     dataset_object(kind, split, NoMappingArg, invs[split])]
            /\ data_error' = NoError
            /\ returned_mapping' = [given |-> TRUE,
                                    mapping |-> load_class_mapping("train", NoMappingArg)]
    /\ UNCHANGED <<data_dir, trainer_vars, model_vars, pass_vars, setup_vars>>

InitData ==
    /\ TrainerIdle
    /\ ModelIdle
    /\ PassIdle
    /\ SetupIdle
    /\ data_dir \in DataDirs
    /\ datasets = NoDatasets
    /\ data_error = NoError
    /\ returned_mapping = NoMappingArg

NextData ==
    \/ \E split \in SplitNames, arg \in MappingArgs : FoodDatasetInit(split, arg)
    \/ \E split \in SplitNames, arg \in MappingArgs : AlbumentationsDatasetInit(split, arg)
    \/ \E use_albumentations \in BOOLEAN : CreateDataLoaders(use_albumentations)

\* Dataset construction over every layout of the data directory.
SpecData == InitData /\ [][NextData]_vars

\* ------------------------------------------------------------------ model

\* model_name.startswith(prefix)
startswith(name, prefix) == name[1] = prefix

\* digits in model_name: of the names above, only the resnet of that number
\* has the digits "50", "101" or "152" in its name.
contains(name, digits) == name[2] = digits

\* model_map of _get_resnet_model, each torchvision resnet with the
\* in_features of its fc layer.
ResnetModelMap == [number \in {"18", "34", "50", "101", "152"} |->
                      IF number \in {"18", "34"} THEN 512 ELSE 2048]

\* num_features of the timm backbones.
TimmNumFeatures ==
    <<"efficientnet", "_b0">> :> 1280 @@ <<"efficientnet", "_b3">> :> 1536 @@
    <<"vit", "_base_patch16_224">> :> 768 @@ <<"vit", "_small_patch16_224">> :> 384

\* Variant: a resnet name that is not in the map gets resnet50.
get_resnet_model_or_default(name) ==
    [error |-> "None",
     in_features |-> IF name[2] \in DOMAIN ResnetModelMap
                     THEN ResnetModelMap[name[2]] ELSE ResnetModelMap["50"]]

\* FoodClassifier._get_resnet_model
get_resnet_model(name) ==
    IF name[2] \notin DOMAIN ResnetModelMap
    THEN [error |-> "ValueError", in_features |-> 0]
    ELSE [error |-> "None", in_features |-> ResnetModelMap[name[2]]]

\* FoodClassifier.__init__, "Load backbone model": the backbone with its
\* feature dimension, or the error raised.
load_backbone(name) ==
    IF startswith(name, "resnet") THEN get_resnet_model(name)
    ELSE IF startswith(name, "efficientnet") \/ startswith(name, "vit")
    THEN [error |-> "None", in_features |-> TimmNumFeatures[name]]
    ELSE [error |-> "ValueError", in_features |-> 0]

\* create_model, "Get feature dimension from classifier"
macro_feature_dim(name) ==
    IF startswith(name, "resnet")
    THEN IF contains(name, "50") \/ contains(name, "101") \/ contains(name, "152")
         THEN 2048 ELSE 512
    ELSE IF startswith(name, "efficientnet") THEN 1280
    ELSE 768

\* MacroEstimator(feature_dim)
MacroEstimator(feature_dim) == [present |-> TRUE, feature_dim |-> feature_dim]

\* The macro_estimator argument of FoodRecognitionModel: None, or an
\* estimator of some input dimension (2048 is MacroEstimator's default).
EstimatorArgs == {NoEstimator, MacroEstimator(512), MacroEstimator(2048)}

\* FoodClassifier.__init__ up to the backbone: the first step of
\* create_model and of a direct construction.
FoodClassifierBackbone(name, num_classes) ==
    /\ model = NoModel
    /\ model' = [stage |-> IF load_backbone(name).error = "None"
                           THEN "backbone" ELSE load_backbone(name).error,
                 model_name |-> name,
                 num_classes |-> num_classes,
                 feature_dim |-> load_backbone(name).in_features,
                 classifier_head |-> FALSE,
                 use_macro_estimation |-> FALSE,
                 macro_estimator |-> NoEstimator]
    /\ UNCHANGED <<outputs, config_module, inference_module, config_call, trainer_vars,
                 data_vars, pass_vars, setup_vars>>

\* FoodClassifier.__init__, "Classifier head" and the weight initialization
FoodClassifierHead ==
    /\ model.stage = "backbone"
    /\ model' = [model EXCEPT !.stage = "classifier", !.classifier_head = TRUE]
    /\ UNCHANGED <<outputs, config_module, inference_module, config_call, trainer_vars,
                 data_vars, pass_vars, setup_vars>>

\* FoodRecognitionModel.__init__(classifier, macro_estimator, use_macro_estimation)
recognition_model(classifier, macro_estimator, use_macro_estimation) ==
    [classifier EXCEPT
        !.stage = "built",
        !.use_macro_estimation = use_macro_estimation,
        !.macro_estimator = IF use_macro_estimation /\ macro_estimator.present
                            THEN macro_estimator ELSE NoEstimator]

\* create_model after the classifier: the macro estimator if needed, and
\* the complete model
CreateModel(use_macro_estimation) ==
    /\ model.stage = "classifier"
    /\ model' = recognition_model(
                    model,
                    IF use_macro_estimation
                    THEN MacroEstimator(macro_feature_dim(model.model_name))
                    ELSE NoEstimator,
                    use_macro_estimation)
    /\ UNCHANGED <<outputs, config_module, inference_module, config_call, trainer_vars,
                 data_vars, pass_vars, setup_vars>>

\* FoodRecognitionModel(classifier, macro_estimator, use_macro_estimation)
\* called directly
FoodRecognitionModelInit(macro_estimator, use_macro_estimation) ==
    /\ model.stage = "classifier"
    /\ model' = recognition_model(model, macro_estimator, use_macro_estimation)
    /\ UNCHANGED <<outputs, config_module, inference_module, config_call, trainer_vars,
                 data_vars, pass_vars, setup_vars>>

\* FoodRecognitionModel.forward on a batch of n images: the shapes of the
\* three outputs (<<>> for None), or the error of a linear layer whose
\* input dimension is not that of the features.
Forward(n) ==
    /\ model.stage = "built"
    /\ outputs = NoOutputs
    /\ outputs' =
          IF /\ model.use_macro_estimation
             /\ model.macro_estimator.present
             /\ model.macro_estimator.feature_dim # model.feature_dim
          THEN [error |-> "RuntimeError"]
          ELSE [error |-> "None",
                classification |-> <<n, model.num_classes>>,
                macros |-> IF model.use_macro_estimation /\ model.macro_estimator.present
                           THEN <<n, MacroOutputs>> ELSE <<>>,
                features |-> <<n, model.feature_dim>>]
    /\ UNCHANGED <<model, config_module, inference_module, config_call, trainer_vars,
                 data_vars, pass_vars, setup_vars>>

\* ----------------------------------------------------- config, inference

\* The fields of the dataclass ModelConfig, each with the type of the
\* default value the class body gives it.
ModelConfigDefaults ==
    [model_name |-> "str", num_classes |-> "int", dropout_rate |-> "float",
     train_split |-> "float", val_split |-> "float", test_split |-> "float",
     macro_estimation_enabled |-> "bool", food_categories |-> "dict"]

\* @dataclass: a field whose default is a list, a dict or a set is refused
\* when the class is created.
dataclass(defaults) ==
    IF \E f \in DOMAIN defaults : defaults[f] \in {"list", "dict", "set"}
    THEN "ValueError" ELSE "loaded"

\* Executing config.py: the class statement, then config = ModelConfig().
ImportConfig ==
    /\ config_module = "unloaded"
    /\ config_module' = dataclass(ModelConfigDefaults)
    /\ UNCHANGED <<model, outputs, inference_module, config_call, trainer_vars,
                 data_vars, pass_vars, setup_vars>>

\* Importing scripts/inference.py: its "from config import config" comes
\* before the class FoodRecognitionPredictor is defined.
ImportInference ==
    /\ inference_module = "unloaded"
    /\ config_module' = dataclass(ModelConfigDefaults)
    /\ inference_module' = dataclass(ModelConfigDefaults)
    /\ UNCHANGED <<model, outputs, config_call, trainer_vars, data_vars, pass_vars,
                 setup_vars>>

\* ModelConfig(train_split=..., val_split=..., test_split=...): the __init__
\* that @dataclass generates stores the arguments as given, and
\* __post_init__ creates the data, models and logs directories.
ModelConfig(ratios) ==
    [train_split |-> ratios.train_split,
     val_split |-> ratios.val_split,
     test_split |-> ratios.test_split,
     directories_created |-> TRUE]

\* A process runs "from config import ModelConfig" and calls the class; the
\* import executes config.py, whose class statement comes first.
ModelConfigInit(ratios) ==
    /\ config_call = NoConfigCall
    /\ config_module' = dataclass(ModelConfigDefaults)
    /\ config_call' =
          IF dataclass(ModelConfigDefaults) = "loaded"
          THEN [error |-> "None", ratios |-> ratios, objects |-> {ModelConfig(ratios)}]
          ELSE [error |-> dataclass(ModelConfigDefaults), ratios |-> ratios, objects |-> {}]
    /\ UNCHANGED <<model, outputs, inference_module, trainer_vars, data_vars, pass_vars,
                   setup_vars>>

\* config.food_categories, two of its entries; grams in tenths.
food_categories ==
    [apple_pie |-> [calories |-> 237, protein |-> 24, carbs |-> 340, fat |-> 110, fiber |-> 18],
     pizza |-> [calories |-> 280, protein |-> 120, carbs |-> 350, fat |-> 120, fiber |-> 20]]

\* FoodRecognitionPredictor._get_macros_for_class
get_macros_for_class(class_name) ==
    IF class_name \in DOMAIN food_categories
    THEN food_categories[class_name]
    ELSE [calories |-> 0, protein |-> 0, carbs |-> 0, fat |-> 0, fiber |-> 0]

\* torch.topk(classification_probs, top_k): the choices of top_k indices in
\* non-increasing order of probability, none left out being more probable.
topk(probs, top_k) ==
    {top \in [1 .. top_k -> DOMAIN probs] :
        /\ \A i, j \in 1 .. top_k : i < j =>
              (top[i] # top[j] /\ probs[top[i]] >= probs[top[j]])
        /\ \A idx \in DOMAIN probs :
              (\A i \in 1 .. top_k : top[i] # idx) => probs[idx] <= probs[top[top_k]]}

\* FoodRecognitionPredictor.predict, from the softmax probabilities on: the
\* results it can return for one choice of torch.topk.
predict(idx_to_class, probs, top_k, macros_output, macro_estimation_enabled) ==
    {[predictions |-> [i \in 1 .. top_k |->
                         [class |-> idx_to_class[top[i]],
                          probability |-> probs[top[i]],
                          macros |-> get_macros_for_class(idx_to_class[top[i]])]],
      estimated_macros |-> macro_estimation_enabled /\ macros_output # <<>>,
      top_prediction |-> [class |-> idx_to_class[top[1]],
                          probability |-> probs[top[1]],
                          macros |-> get_macros_for_class(idx_to_class[top[1]])]] :
        top \in topk(probs, top_k)}

InitModel ==
    /\ TrainerIdle
    /\ DataIdle
    /\ ModelIdle
    /\ PassIdle
    /\ SetupIdle

NextModel ==
    \/ \E name \in ArchitectureNames, num_classes \in ClassCounts :
          FoodClassifierBackbone(name, num_classes)
    \/ FoodClassifierHead
    \/ \E use_macro_estimation \in BOOLEAN : CreateModel(use_macro_estimation)
    \/ \E macro_estimator \in EstimatorArgs, use_macro_estimation \in BOOLEAN :
          FoodRecognitionModelInit(macro_estimator, use_macro_estimation)
    \/ \E n \in BatchSizes : Forward(n)
    \/ ImportConfig
    \/ ImportInference
    \/ \E ratios \in SplitRatios : ModelConfigInit(ratios)

\* Model construction and forward, and the import of the modules the
\* inference script needs.
SpecModel == InitModel /\ [][NextModel]_vars

\* ------------------------------------------------------------------ passes

\* Variant: the macro regression loss is added when macros are returned.
loss_terms_with_macro(n) ==
    IF n.macro_estimation_enabled /\ n.has_macro_estimator
    THEN {"classification", "macro"}
    ELSE {"classification"}

\* train_epoch, "Calculate loss": the terms of the loss that is
\* backpropagated; outputs['macros'] is not None exactly if the model has a
\* macro estimator.
loss_terms(n) ==
    IF n.macro_estimation_enabled /\ n.has_macro_estimator
    THEN {"classification"}
    ELSE {"classification"}

\* loss.backward(): the parameter groups that receive a gradient.  The
\* classification output is computed by the classifier; a macro term would
\* reach the macro estimator and, through the features, the backbone.
backward(terms) ==
    [classifier |-> terms # {}, macro |-> "macro" \in terms]

\* One batch of train_epoch: zero_grad (which, depending on the torch
\* version, sets the gradients to None or zeroes those that exist), forward,
\* loss, backward, and the AdamW step, which skips every parameter whose
\* grad is None and gives the others new values.
TrainBatch(set_to_none, w, m) ==
    /\ passes < MaxPasses
    /\ LET zeroed == IF set_to_none THEN NoGrad ELSE grad
           computed == backward(loss_terms(net))
           after == [group \in {"classifier", "macro"} |-> zeroed[group] \/ computed[group]]
       IN  /\ grad' = after
           /\ classifier_weights' = IF after.classifier THEN w ELSE classifier_weights
           /\ macro_weights' = IF after.macro THEN m ELSE macro_weights
    /\ batch_idx' = (batch_idx + 1) % TrainBatches
    /\ passes' = IF batch_idx + 1 = TrainBatches THEN passes + 1 ELSE passes
    /\ UNCHANGED <<net, eval_result, trainer_vars, data_vars, model_vars, setup_vars>>

\* sklearn's confusion_matrix(y_true, y_pred) called without labels=: the
\* labels are the sorted values that occur in y_true or y_pred, and the
\* cell (i, j) counts the samples whose target is the i-th and whose
\* prediction is the j-th of them.
confusion_matrix(y_true, y_pred) ==
    LET labels == {y_true[k] : k \in DOMAIN y_true} \cup {y_pred[k] : k \in DOMAIN y_pred}
        position(label) == Cardinality({other \in labels : other < label})
        n_labels == Cardinality(labels)
    IN  [cell \in (0 .. (n_labels - 1)) \X (0 .. (n_labels - 1)) |->
            Cardinality({k \in DOMAIN y_true :
                            /\ position(y_true[k]) = cell[1]
                            /\ position(y_pred[k]) = cell[2]})]

\* evaluate(loader) followed sample by sample: the targets of the loader,
\* the argmax predictions of the model, and the confusion matrix returned.
\* The pass runs in eval mode under no_grad and takes no optimizer step.
EvaluatePass(all_targets, all_predictions) ==
    /\ eval_result = NoEvalResult
    /\ DOMAIN all_targets = DOMAIN all_predictions
    /\ eval_result' = [called |-> TRUE,
                       all_targets |-> all_targets,
                       all_predictions |-> all_predictions,
                       cm |-> confusion_matrix(all_targets, all_predictions)]
    /\ UNCHANGED <<net, classifier_weights, macro_weights, grad, batch_idx, passes,
                   trainer_vars, data_vars, model_vars, setup_vars>>

InitPass ==
    /\ TrainerIdle
    /\ DataIdle
    /\ ModelIdle
    /\ SetupIdle
    /\ net \in Nets
    /\ classifier_weights = 0
    /\ macro_weights = 0
    /\ grad = NoGrad
    /\ batch_idx = 0
    /\ passes = 0
    /\ eval_result = NoEvalResult

NextPass ==
    \/ \E set_to_none \in BOOLEAN, w \in Weights, m \in Weights : TrainBatch(set_to_none, w, m)
    \/ \E n \in 1 .. EvalSamples :
          \E all_targets \in [1 .. n -> 0 .. (net.num_classes - 1)],
             all_predictions \in [1 .. n -> 0 .. (net.num_classes - 1)] :
                EvaluatePass(all_targets, all_predictions)

\* The passes of a trainer over its loaders, batch by batch and sample by
\* sample.
SpecPass == InitPass /\ [][NextPass]_vars

\* ----------------------------------------------------------- dataset setup

\* "Create class directories and organize images": the images listed in
\* meta/<split>.txt, each copied to organized/<split>/<class_name>/.
copy_listed(split) == {image \in Food101Images : meta[image] = split}

\* num_val = max(1, len(images) // 10)
num_val(images) ==
    IF Cardinality(images) \div 10 > 1 THEN Cardinality(images) \div 10 ELSE 1

\* images[:num_val] of list(class_train_dir.glob("*.jpg")): glob yields the
\* directory's entries in the order the file system lists them, which is
\* not specified, so the slice can be any num_val of the images (all of
\* them if there are fewer).
first_of_glob(images) ==
    {slice \in SUBSET images :
        Cardinality(slice) = IF num_val(images) < Cardinality(images)
                             THEN num_val(images) ELSE Cardinality(images)}

\* setup_food101_dataset, from "Create class directories" on: the listed
\* train and test images are copied (over those already there), then for
\* every class the first num_val images of its train directory are moved to
\* its val directory.
SetupFood101Dataset(moved) ==
    /\ setup_runs < MaxSetupRuns
    /\ LET train_copied == organized.train \cup copy_listed("train")
           test_copied == organized.test \cup copy_listed("test")
           all_moved == UNION {moved[class_name] : class_name \in ClassNames}
       IN  /\ \A class_name \in ClassNames :
                  moved[class_name] \in
                      first_of_glob({image \in train_copied : image[1] = class_name})
           /\ organized' = [train |-> train_copied \ all_moved,
                            val |-> organized.val \cup all_moved,
                            test |-> test_copied]
    /\ setup_runs' = setup_runs + 1
    /\ UNCHANGED <<meta, trainer_vars, data_vars, model_vars, pass_vars>>

InitSetup ==
    /\ TrainerIdle
    /\ DataIdle
    /\ ModelIdle
    /\ PassIdle
    /\ meta \in MetaLists
    /\ organized = EmptyOrganized
    /\ setup_runs = 0

NextSetup ==
    \E moved \in [ClassNames -> SUBSET Food101Images] : SetupFood101Dataset(moved)

\* Runs of the setup script on one data directory, over every content of
\* the meta lists.
SpecSetup == InitSetup /\ [][NextSetup]_vars

\* ------------------------------------------------------------- properties

\* Positions of Trainer.train inside an epoch of the loop.
EpochPcs == {"train_epoch", "validate_epoch", "scheduler_step", "save_history",
             "save_best", "save_checkpoint"}

SavedCount(s, path) == IF path \in DOMAIN s THEN s[path] ELSE 0

EpochNumbers == 1 .. MaxWork

HistoryLen == Len(train_history.val_accuracy)

\* C1: after load_checkpoint has returned epoch index e, the next call of
\* train runs no epoch index below e + 1, and when it returns (with
\* num_epochs > e) the history holds num_epochs entries.
C1_ResumeContinuesAfterRecordedEpoch ==
    resumed_epoch # NoEpoch =>
        /\ pc \in EpochPcs => epoch >= resumed_epoch + 1
        /\ (pc = "returned" /\ num_epochs > resumed_epoch) => HistoryLen = num_epochs

\* C2: in every step of train, a best-model file best_model_epoch_<n> is
\* written exactly when the step is the best-model decision of epoch n and
\* that epoch's validation accuracy is strictly greater than
\* best_val_accuracy as it stood before; an equal or lower accuracy writes
\* no best-model file.
C2_BestFileIffStrictlyBetter ==
    [][\A n \in EpochNumbers :
          (SavedCount(saved', best_model_path_of(n)) > SavedCount(saved, best_model_path_of(n)))
          <=> (/\ pc = "save_best"
               /\ n = epoch + 1
               /\ val_metrics.accuracy > best_val_accuracy)]_vars

\* C2 witness: after an earlier epoch of the call wrote a best-model file, an
\* epoch whose validation accuracy ties the best has passed the decision
\* without writing one.
C2_Witness ==
    /\ pc = "save_checkpoint"
    /\ val_metrics.accuracy = best_val_accuracy
    /\ best_val_accuracy > InitialBestValAccuracy
    /\ SavedCount(saved, best_model_path_of(epoch + 1)) = 0
    /\ \E n \in 1 .. epoch : SavedCount(saved, best_model_path_of(n)) = 1

\* C3: best_val_accuracy never decreases in a step of Trainer.train.
C3_BestMonotone ==
    [][(pc # "idle" \/ pc' # "idle") => best_val_accuracy' >= best_val_accuracy]_vars

\* C3 witness: an epoch whose validation accuracy is below the recorded best
\* has passed the best-model decision.
C3_Witness ==
    /\ pc = "save_checkpoint"
    /\ val_metrics.accuracy < best_val_accuracy

\* Positions of Trainer.train, from the head of the loop to the final save.
RunPcs == EpochPcs \cup {"save_final"}

\* Steps of the current epoch that lie behind position q.
TrainedAt(q) == IF q \in {"validate_epoch", "scheduler_step", "save_history",
                          "save_best", "save_checkpoint"} THEN 1 ELSE 0

SteppedAt(q) == IF q \in {"save_history", "save_best", "save_checkpoint"} THEN 1 ELSE 0

AppendedAt(q) == IF q \in {"save_best", "save_checkpoint"} THEN 1 ELSE 0

ValidatedAt(q) == q \in {"scheduler_step", "save_history", "save_best", "save_checkpoint"}

LastOf(seq) == seq[Len(seq)]

\* What a file written in an epoch must hold of that epoch.
HoldsEpoch(contents, tm, vm, sched) ==
    /\ Len(contents.train_history.val_accuracy) >= 1
    /\ LastOf(contents.train_history.loss) = tm.loss
    /\ LastOf(contents.train_history.accuracy) = tm.accuracy
    /\ LastOf(contents.train_history.val_loss) = vm.loss
    /\ LastOf(contents.train_history.val_accuracy) = vm.accuracy
    /\ "scheduler_state_dict" \in DOMAIN contents => contents.scheduler_state_dict = sched
    /\ "best_val_accuracy" \in DOMAIN contents => contents.best_val_accuracy >= vm.accuracy

FullCheckpointFields == {"epoch", "model_state_dict", "optimizer_state_dict",
                         "scheduler_state_dict", "train_history", "best_val_accuracy"}

IsCheckpointPath(path) == path[1] = "checkpoint_epoch"

\* C5: save_checkpoint records the epoch index it is given and the trainer's
\* parameter values, optimizer state, scheduler state, history and best
\* accuracy as they are at the save; load_checkpoint of such a file into a
\* trainer of the same architecture, whatever its state, sets these five to
\* the recorded values and returns the recorded epoch index.
C5_CheckpointRoundTrip ==
    [][/\ \A path \in DOMAIN files' :
             (IsCheckpointPath(path) /\ SavedCount(saved', path) > SavedCount(saved, path))
             => /\ files'[path].epoch = epoch
                /\ files'[path].model_state_dict = state_dict
                /\ files'[path].optimizer_state_dict = optimizer
                /\ files'[path].scheduler_state_dict = scheduler
                /\ files'[path].train_history = train_history
                /\ files'[path].best_val_accuracy = best_val_accuracy
       /\ \A path \in DOMAIN files, val \in ParamSpace(val_total) :
             (/\ LoadCheckpoint(path, val)
              /\ FullCheckpointFields \subseteq DOMAIN files[path]
              /\ files[path].model_state_dict.arch = arch)
             => /\ state_dict' = files[path].model_state_dict
                /\ optimizer' = files[path].optimizer_state_dict
                /\ scheduler' = files[path].scheduler_state_dict
                /\ train_history' = files[path].train_history
                /\ best_val_accuracy' = files[path].best_val_accuracy
                /\ resumed_epoch' = files[path].epoch]_vars

\* C5 witness: a trainer that had gone on to an eleventh epoch has loaded the
\* checkpoint of the tenth and holds what the checkpoint recorded.
C5_Witness ==
    /\ pc = "idle"
    /\ resumed_epoch = CheckpointEvery - 1
    /\ HistoryLen = CheckpointEvery
    /\ scheduler = CheckpointEvery
    /\ final_model_path \in DOMAIN files
    /\ Len(files[final_model_path].train_history.val_accuracy) = CheckpointEvery + 1
    /\ checkpoint_path_of(CheckpointEvery) \in DOMAIN files
    /\ files[checkpoint_path_of(CheckpointEvery)].train_history = train_history

\* C6 as claimed: no step ever changes a best-model or periodic checkpoint
\* file that exists, over any sequence of training runs into the directory.
C6_CheckpointFilesNeverChange ==
    [][\A path \in DOMAIN files :
          path # final_model_path => files'[path] = files[path]]_vars

\* C6 as amended: inside one call of train, a best-model or periodic
\* checkpoint file that the call has written is neither changed nor written
\* again by a later step of that call (nor by anything before the next call).
C6_WrittenOncePerCall ==
    [][(pc # "idle" \/ pc' = "idle") =>
          \A path \in DOMAIN saved :
              path # final_model_path
              => /\ saved[path] = 1
                 /\ SavedCount(saved', path) = 1
                 /\ files'[path] = files[path]]_vars

\* C6 witness: a call of two epochs is at its end and the best-model file of
\* its first epoch has been followed by that of its second.
C6_Witness ==
    /\ pc = "save_final"
    /\ num_epochs > 1
    /\ SavedCount(saved, best_model_path_of(1)) = 1
    /\ SavedCount(saved, best_model_path_of(num_epochs)) = 1

\* C7: a step of train writes checkpoint_epoch_<n> exactly when it is the
\* periodic-checkpoint decision of the epoch with 1-based number n and n is a
\* multiple of 10, whatever the validation accuracy; the file holds the epoch,
\* model, optimizer, scheduler, history and best accuracy.
C7_PeriodicCheckpointEveryTenth ==
    [][\A n \in EpochNumbers :
          (SavedCount(saved', checkpoint_path_of(n)) > SavedCount(saved, checkpoint_path_of(n)))
          <=> (/\ pc = "save_checkpoint"
               /\ n = epoch + 1
               /\ n % 10 = 0
               /\ checkpoint_path_of(n) \in DOMAIN files'
               /\ FullCheckpointFields \subseteq DOMAIN files'[checkpoint_path_of(n)])]_vars

\* C7 witness: the tenth epoch did not improve the validation accuracy (no
\* best-model file of that epoch) and its periodic checkpoint was written.
C7_Witness ==
    /\ pc \in RunPcs
    /\ epoch = CheckpointEvery
    /\ SavedCount(saved, checkpoint_path_of(CheckpointEvery)) = 1
    /\ SavedCount(saved, best_model_path_of(CheckpointEvery)) = 0

\* C8: a call of train has not written final_model.pth before its loop is
\* over, and when it returns it has written it exactly once, after all
\* num_epochs epochs (also for num_epochs = 0), with the parameters and the
\* history as they are after the last epoch.
C8_FinalModelOnce ==
    /\ pc \in EpochPcs => SavedCount(saved, final_model_path) = 0
    /\ pc = "returned" =>
          /\ SavedCount(saved, final_model_path) = 1
          /\ epoch = num_epochs
          /\ files[final_model_path].model_state_dict = state_dict
          /\ files[final_model_path].train_history = train_history
          /\ DOMAIN files[final_model_path] = {"model_state_dict", "config", "train_history"}

\* C8 witness: a call has returned whose last epoch was not its best: the
\* final snapshot differs from the best-model file the call wrote.
C8_Witness ==
    /\ pc = "returned"
    /\ best_model_path \in DOMAIN saved
    /\ files[best_model_path].model_state_dict.values
         # files[final_model_path].model_state_dict.values
    /\ files[final_model_path].model_state_dict.values = params

\* C9: every model file a training run has written can be loaded by
\* FoodRecognitionPredictor.
C9_PredictorLoadsEveryModelFile ==
    \A path \in DOMAIN files : PredictorLoadModel(path)

MaxOf(S) == CHOOSE x \in S : \A y \in S : y <= x

\* Validation accuracies recorded before the current call of train, and
\* those its epochs appended.
PriorBest == MaxOf({InitialBestValAccuracy} \cup
                   {train_history.val_accuracy[i] : i \in 1 .. (HistoryLen - num_epochs)})

RunAccuracies == {train_history.val_accuracy[i] : i \in (HistoryLen - num_epochs + 1) .. HistoryLen}

\* C10 as claimed: a call of train that has completed at least one epoch
\* leaves a best-model file in the save directory.
C10_EveryRunLeavesBestFile ==
    (pc = "returned" /\ num_epochs >= 1)
    => \E n \in EpochNumbers : best_model_path_of(n) \in DOMAIN files

\* C10 as amended: a call of train writes at least one best-model file
\* exactly when the validation accuracy of one of its epochs is strictly
\* above the best accuracy recorded before the call (0 for a fresh trainer);
\* a call whose validation accuracy is 0 in every epoch writes none.
C10_BestFileIffRunImproved ==
    pc = "returned" =>
        /\ (\E n \in EpochNumbers : SavedCount(saved, best_model_path_of(n)) >= 1)
             <=> (\E a \in RunAccuracies : a > PriorBest)
        /\ (\A a \in RunAccuracies : a = 0) =>
              \A n \in EpochNumbers : SavedCount(saved, best_model_path_of(n)) = 0

\* C10 witness: a call whose first epoch had validation accuracy 0 and whose
\* second epoch improved has returned, leaving the second epoch's file.
C10_Witness ==
    /\ pc = "returned"
    /\ num_epochs = 2
    /\ HistoryLen = 2
    /\ train_history.val_accuracy[1] = 0
    /\ SavedCount(saved, best_model_path_of(2)) = 1
    /\ best_model_path_of(2) \in DOMAIN files

\* A number x and a fraction are the same number.
EqualsFraction(x, fraction) == x * fraction.den = fraction.num

\* C11: when evaluate is run on the validation loader with the parameters
\* of the best-model file of the call, the accuracy it returns is the same
\* number as the accuracy recorded for that file: the best_val_accuracy set
\* in its epoch, which is the last val_accuracy entry of the history saved
\* in the file.
C11_BestAccuracyMatchesEvaluate ==
    (/\ test_metrics.loader = "val_loader"
     /\ best_model_path \in DOMAIN saved
     /\ files[best_model_path].model_state_dict = state_dict)
    => /\ LastOf(files[best_model_path].train_history.val_accuracy) = best_val_accuracy
       /\ EqualsFraction(best_val_accuracy, test_metrics.accuracy)

HistoryKeys == {"loss", "accuracy", "val_loss", "val_accuracy"}

\* Positions of Trainer.train between two epochs, and after the last.
EpochBoundaryPcs == {"train_epoch", "save_final", "returned"}

\* C12: in every step of train each of the four history sequences is left
\* as it is or, in the history step of an epoch, extended by exactly one
\* value behind its earlier entries; at every epoch boundary the four have
\* the same length; and a trainer whose optimizer has taken only the steps
\* of the epochs of this call (a fresh trainer) has, after k epochs, a
\* history of length k.
C12_HistoryAppendOnly ==
    [][/\ pc # "idle" =>
            \A key \in HistoryKeys :
                IF pc = "save_history"
                THEN /\ Len(train_history'[key]) = Len(train_history[key]) + 1
                     /\ SubSeq(train_history'[key], 1, Len(train_history[key]))
                          = train_history[key]
                ELSE train_history'[key] = train_history[key]
       /\ pc' \in EpochBoundaryPcs =>
            /\ \A key \in HistoryKeys :
                   Len(train_history'[key]) = Len(train_history'.val_accuracy)
            /\ optimizer' = TrainBatches * epoch' =>
                   Len(train_history'.val_accuracy) = epoch']_vars

\* C12 witness: a fresh trainer has returned from a call of two epochs with
\* a history of length 2.
C12_Witness ==
    /\ pc = "returned"
    /\ num_epochs = 2
    /\ optimizer = TrainBatches * 2
    /\ \A key \in HistoryKeys : Len(train_history[key]) = 2

ModelFileFields == {"model_state_dict", "config", "train_history"}

\* C13: every best-model and final-model file of the save directory holds
\* the parameter snapshot, the config and the history and neither optimizer
\* nor scheduler state; every periodic checkpoint file holds the epoch, the
\* parameter snapshot, the optimizer state, the scheduler state, the
\* history and the best validation accuracy.
C13_FileContents ==
    \A path \in DOMAIN files :
        IF IsCheckpointPath(path)
        THEN FullCheckpointFields \subseteq DOMAIN files[path]
        ELSE /\ DOMAIN files[path] = ModelFileFields
             /\ "optimizer_state_dict" \notin DOMAIN files[path]
             /\ "scheduler_state_dict" \notin DOMAIN files[path]

\* C13 witness: the save directory holds a best-model file, a periodic
\* checkpoint and the final model.
C13_Witness ==
    /\ checkpoint_path_of(CheckpointEvery) \in DOMAIN files
    /\ final_model_path \in DOMAIN files
    /\ \E n \in EpochNumbers : best_model_path_of(n) \in DOMAIN files

DatasetKinds == {"FoodDataset", "AlbumentationsDataset"}

\* C14: constructing a dataset of either class for a split whose directory
\* is absent raises the not-found error and leaves no dataset, whether the
\* class mapping is passed in, read from class_mapping.json or built from
\* the directories.
C14_AbsentSplitRaisesNotFound ==
    [][\A kind \in DatasetKinds, split \in SplitNames, arg \in MappingArgs :
          (DatasetInit(kind, split, arg) /\ ~data_dir.splits[split].exists)
          => (data_error' = "FileNotFoundError" /\ datasets' = NoDatasets)]_vars

\* idx_to_class[class_to_idx[name]] == name for every name, and the indices
\* are exactly 0 .. num_classes - 1.
IsDenseBijection(class_to_idx, idx_to_class) ==
    /\ \A name \in DOMAIN class_to_idx :
          /\ class_to_idx[name] \in DOMAIN idx_to_class
          /\ idx_to_class[class_to_idx[name]] = name
    /\ {class_to_idx[name] : name \in DOMAIN class_to_idx}
         = 0 .. (Cardinality(DOMAIN class_to_idx) - 1)

\* C15: the class mapping and the reverse mapping of every dataset that was
\* constructed form a bijection onto 0 .. num_classes - 1, however the
\* mapping was obtained.
C15_ClassMappingBijection ==
    \A d \in DOMAIN datasets :
        IsDenseBijection(datasets[d].class_mapping, datasets[d].idx_to_class)

\* C16: after create_data_loaders, with num_classes the number of entries
\* of the class mapping it returned (the one main builds the model with),
\* every label of every sample of the three datasets lies in
\* 0 .. num_classes - 1 and is that mapping's index for the sample's class
\* directory.
C16_LabelsWithinNumClasses ==
    returned_mapping.given =>
        \A split \in DOMAIN datasets :
            \A sample \in datasets[split].samples :
                /\ sample.label \in 0 .. (Cardinality(DOMAIN returned_mapping.mapping) - 1)
                /\ sample.class \in DOMAIN returned_mapping.mapping
                /\ sample.label = returned_mapping.mapping[sample.class]

\* Softmax probabilities, as levels: equal levels are ties.
ProbLevels == {1, 2}

\* The class mappings training writes for the predictor.
WrittenMappings == {enumerate_sorted(S) : S \in (SUBSET ClassNames) \ {{}}}

\* C17: once scripts/inference.py has been imported the predictor exists,
\* and for every class mapping, every probability vector and every k with
\* 1 <= k <= num_classes each result predict can return has exactly k
\* predictions, of k distinct classes, in non-increasing order of
\* probability, none of the classes left out being more probable; its
\* top_prediction is the first of them; and estimated_macros is non-null
\* exactly when the macro head is enabled.
C17_PredictReturnsTopK ==
    inference_module # "unloaded" =>
        /\ inference_module = "loaded"
        /\ \A mapping \in WrittenMappings, enabled \in BOOLEAN :
              \A inv \in Inversions(mapping), k \in 1 .. Cardinality(DOMAIN mapping) :
                \A probs \in [DOMAIN inv -> ProbLevels] :
                  \A result \in predict(inv, probs, k, IF enabled THEN <<1, MacroOutputs>> ELSE <<>>,
                                         enabled) :
                      /\ DOMAIN result.predictions = 1 .. k
                      /\ \A i, j \in 1 .. k : i < j =>
                            /\ result.predictions[i].class # result.predictions[j].class
                            /\ result.predictions[i].probability
                                 >= result.predictions[j].probability
                      /\ \A idx \in DOMAIN inv :
                            (\A i \in 1 .. k : result.predictions[i].class # inv[idx])
                            => probs[idx] <= result.predictions[k].probability
                      /\ result.top_prediction = result.predictions[1]
                      /\ result.estimated_macros <=> enabled

\* C18: once scripts/inference.py has been imported the static lookup is
\* there, returns the table's record for every name in the table (for
\* "pizza": calories 280, protein 12.0, carbs 35.0, fat 12.0, fiber 2.0) and
\* the all-zero record for every other name.
C18_StaticMacroLookup ==
    inference_module # "unloaded" =>
        /\ inference_module = "loaded"
        /\ \A class_name \in ClassNames \cup {"unknown_food"} :
              get_macros_for_class(class_name) =
                  IF class_name \in DOMAIN food_categories
                  THEN food_categories[class_name]
                  ELSE [calories |-> 0, protein |-> 0, carbs |-> 0, fat |-> 0, fiber |-> 0]
        /\ get_macros_for_class("pizza") =
              [calories |-> 280, protein |-> 120, carbs |-> 350, fat |-> 120, fiber |-> 20]
        /\ get_macros_for_class("unknown_food") =
              [calories |-> 0, protein |-> 0, carbs |-> 0, fat |-> 0, fiber |-> 0]

\* C19: every forward pass of a constructed model returns the three
\* outputs classification, macros and features; the macros output is one
\* estimate of 5 values per image whenever macro estimation is enabled, and
\* null whenever it is disabled.
C19_ForwardOutputs ==
    outputs # NoOutputs =>
        /\ outputs.error = "None"
        /\ {"classification", "macros", "features"} \subseteq DOMAIN outputs
        /\ model.use_macro_estimation =>
              outputs.macros = <<outputs.classification[1], MacroOutputs>>
        /\ ~model.use_macro_estimation => outputs.macros = <<>>

\* The names the claim calls supported.
Supported(name) ==
    \/ startswith(name, "resnet") /\ name[2] \in {"18", "34", "50", "101", "152"}
    \/ startswith(name, "efficientnet")
    \/ startswith(name, "vit")

\* C20: a model whose construction was begun with a name outside the
\* supported set is in the unsupported-model error, has no classifier head
\* and has made no forward pass; so a name is never accepted at
\* construction and rejected at forward time.
C20_UnsupportedNameFailsAtConstruction ==
    (model # NoModel /\ ~Supported(model.model_name))
    => /\ model.stage = "ValueError"
       /\ ~model.classifier_head
       /\ outputs = NoOutputs

\* C20 witness: the construction with the name resnet99, which starts with
\* "resnet" and is not in the model map, has failed; so has one with a name
\* of no known family.
C20_Witness ==
    /\ model # NoModel
    /\ model.model_name \in {<<"resnet", "99">>, <<"mobilenet", "_v2">>}
    /\ model.stage = "ValueError"

\* C22: a step of validate_epoch (inside train) and a call of evaluate, on
\* the validation loader or on the test loader, leave the model parameters,
\* the optimizer state, the scheduler state, the training history and the
\* best validation accuracy as they were.
C22_ReadOnlyPasses ==
    [][(\/ pc = "validate_epoch" /\ pc' = "scheduler_step"
        \/ test_metrics = NoEvaluation /\ test_metrics' # NoEvaluation)
       => UNCHANGED <<params, optimizer, scheduler, train_history,
                      best_val_accuracy>>]_vars

\* C22 witness: after a call of two epochs, each with its validation pass,
\* evaluate has returned the metrics of the test loader.
C22_Witness ==
    /\ pc = "returned"
    /\ num_epochs = 2
    /\ Len(train_history.val_accuracy) = 2
    /\ test_metrics # NoEvaluation
    /\ test_metrics.loader = "test_loader"

\* load_checkpoint(path) raises: torch.load on a missing file, the strict
\* load_state_dict on a state dict of another architecture, or the lookup
\* of a field the file does not have.
LoadFails(path) ==
    \/ path \notin DOMAIN files
    \/ files[path].model_state_dict.arch # arch
    \/ "optimizer_state_dict" \notin DOMAIN files[path]

\* C25: a call of load_checkpoint that fails leaves the model parameters,
\* the optimizer state, the scheduler state, the training history and the
\* best validation accuracy of the trainer as they were before the call.
C25_FailedLoadChangesNothing ==
    [][\A path \in ResumePaths, val \in ParamSpace(val_total) :
          (LoadFails(path) /\ LoadCheckpoint(path, val))
          => UNCHANGED <<params, optimizer, scheduler, train_history,
                         best_val_accuracy>>]_vars

MinOf(S) == CHOOSE x \in S : \A y \in S : x <= y

\* C29: at every epoch boundary of a call of train on a fresh trainer (its
\* optimizer has taken only the steps of the epochs of this call)
\* best_val_accuracy is the maximum of 0 and the val_accuracy entries of the
\* history, and best_model_path, when set, names the file of the earliest
\* epoch whose entry is that maximum.
C29_BestIsMaxOfHistory ==
    (pc \in EpochBoundaryPcs /\ optimizer = TrainBatches * epoch) =>
        LET h == train_history.val_accuracy
            m == MaxOf({InitialBestValAccuracy} \cup {h[i] : i \in 1 .. Len(h)})
            attained == {i \in 1 .. Len(h) : h[i] = m}
        IN  /\ Len(h) = epoch
            /\ best_val_accuracy = m
            /\ best_model_path # NoPath =>
                   best_model_path = best_model_path_of(MinOf(attained))

\* C29 witness: the second epoch of a fresh trainer tied the first, and the
\* best model is still the one of epoch 1.
C29_Witness ==
    /\ pc = "returned"
    /\ optimizer = TrainBatches * epoch
    /\ Len(train_history.val_accuracy) = 2
    /\ train_history.val_accuracy[1] = train_history.val_accuracy[2]
    /\ train_history.val_accuracy[1] > InitialBestValAccuracy
    /\ best_model_path = best_model_path_of(1)

\* C27: the three datasets create_data_loaders has constructed all carry
\* the class mapping it returned, so a class name has one label in the
\* train, val and test splits, whatever the layout of the data directory.
C27_OneMappingForAllSplits ==
    returned_mapping.given =>
        \A split \in DOMAIN datasets :
            datasets[split].class_mapping = returned_mapping.mapping

\* C28: whenever create_model, with macro estimation enabled, completes a
\* model, the input dimension of the macro estimator it made is the feature
\* dimension of the backbone of the classifier it made, whatever accepted
\* architecture name it was given; the estimator's first linear layer then
\* fits the features forward hands it.
C28_MacroHeadFitsBackbone ==
    [][CreateModel(TRUE) =>
          model'.macro_estimator.feature_dim = model'.feature_dim]_vars

\* train_split + val_split + test_split == 1.0, in tenths
SumsToOne(ratios) == ratios.train_split + ratios.val_split + ratios.test_split = 10

\* The configuration objects of the process: the global config of a loaded
\* config module, and what a call of ModelConfig left.
ConfigObjects ==
    (IF config_module = "loaded" THEN {ModelConfig(DefaultSplitRatios)} ELSE {})
    \cup (IF config_call # NoConfigCall THEN config_call.objects ELSE {})

C26_FailureHaltsTrain ==
    [][/\ pc' = "failed" =>
            UNCHANGED <<scheduler, train_history, best_val_accuracy, best_model_path,
                        epoch, files, saved>>
       /\ pc = "failed" =>
            /\ pc' = "idle"
            /\ UNCHANGED <<trainer, epoch, files, saved>>
            /\ final_model_path \notin DOMAIN saved
            /\ best_model_path_of(epoch + 1) \notin DOMAIN saved
            /\ checkpoint_path_of(epoch + 1) \notin DOMAIN saved]_vars

\* C26 witness: the first epoch of a call was completed and its best model
\* written, the second epoch failed and the process has ended: the history
\* has the one entry and there is no final model.
C26_Witness ==
    /\ pc = "idle"
    /\ num_epochs = 2
    /\ epoch = 1
    /\ Len(train_history.val_accuracy) = 1
    /\ best_model_path_of(1) \in DOMAIN saved
    /\ final_model_path \notin DOMAIN files

\* C21: in every batch of train_epoch the loss that is backpropagated
\* consists of the classification cross-entropy alone, with macro
\* estimation enabled or not; no gradient reaches the macro estimator and
\* its parameters are the same after the batch as before, so they are
\* unchanged by any number of epochs.
C21_MacroHeadNeverTrained ==
    [][/\ loss_terms(net) = {"classification"}
       /\ ~grad'.macro
       /\ macro_weights' = macro_weights]_vars

\* C21 witness: a trainer with macro estimation enabled and a model that
\* returns macros has run two epochs; the classifier's parameters have
\* changed and the macro estimator's have not.
C21_Witness ==
    /\ net.macro_estimation_enabled
    /\ net.has_macro_estimator
    /\ passes = MaxPasses
    /\ grad.classifier
    /\ classifier_weights # 0
    /\ macro_weights = 0

\* C23: the confusion matrix evaluate returns has one row and one column
\* for each of the num_classes classes of the model, and the cell of row t
\* and column p is the number of samples of the loader with true label t
\* and predicted label p, also for classes that have no sample and no
\* prediction in the loader.
C23_ConfusionMatrixIsFull ==
    eval_result.called =>
        LET classes == 0 .. (net.num_classes - 1) IN
        /\ DOMAIN eval_result.cm = classes \X classes
        /\ \A t \in classes, p \in classes :
              eval_result.cm[<<t, p>>] =
                 Cardinality({k \in DOMAIN eval_result.all_targets :
                                 /\ eval_result.all_targets[k] = t
                                 /\ eval_result.all_predictions[k] = p})

\* C30: after any number of runs of setup_food101_dataset no image of a
\* class is both in organized/train/<class> and in organized/val/<class>.
C30_TrainValDisjoint ==
    organized.train \cap organized.val = {}

====
